---- MODULE Spec2Model ----
(***************************************************************************)
(* Model of urmacro: the interruptible sleep (_utils.py), the smooth       *)
(* cursor trajectory generator and the held key / button bookkeeping       *)
(* (_input_api.py).                                                        *)
(*                                                                         *)
(* Time is counted in ticks of 1/TicksPerMs millisecond; the monotonic     *)
(* clock perf_counter() is the variable now, which only ever grows.        *)
(***************************************************************************)
EXTENDS Integers, Sequences, FiniteSets, TLC

VARIABLES
    \* ---- sleep_interruptible (one call at a time)
    t_pc,        \* "idle", "poll", "remaining", "sleep", "spin", "ret"
    now,         \* time.perf_counter(), in ticks
    end,         \* local end
    remaining,   \* local remaining (last value computed)
    read_at,     \* the clock value remaining was computed from
    sleep_len,   \* argument of the pending time.sleep call
    t_ret,       \* "none", "True", "False"
    polls,       \* calls of get_active_status so far in this call
    sleeps,      \* calls of time.sleep so far in this call
    spun,        \* TRUE once the busy-wait loop was entered in this call
    t_dur,       \* argument duration of the call
    t_called,    \* the clock value the call computed end from
    active,      \* the last answer of get_active_status (TRUE before any)
    \* ---- smooth_move (one call at a time)
    m_pc,        \* "idle", "loop", "after_loop", "done"
    relative, x, y, duration,      \* the arguments; duration in milliseconds
    start_x, start_y,              \* GetCursorPos at the call
    target_x, target_y,
    mid_bx, mid_by,                \* control point, times MidDen(relative)
    steps, i,                      \* i: the last sample iterated (0: none)
    prev_bx, prev_by,              \* times Den(relative)
    acc_x, acc_y,                  \* times Den(relative)
    roundings,   \* accumulations of this call that rounded inexactly
    sum_dx, sum_dy,  \* sum of the deltas passed to send_input_delta
    n_events,    \* calls of send_input_delta / send_input_move in this call
    last_ev,     \* the last of them: <<"delta" | "move" | "none", a, b>>
    flushed,     \* TRUE when the correction after the loop sent an event
    \* ---- held keys and buttons (module globals of _input_api.py)
    held_keys,         \* _held_keys: a set of key codes
    left_click_held,   \* _left_click_held
    right_click_held,  \* _right_click_held
    key_down,    \* per key code: the last key event injected for it was a key-down
    left_down,   \* the last left button event injected was LEFTDOWN
    right_down,  \* the last right button event injected was RIGHTDOWN
    emitted,     \* the events injected by the last call, in order
    last_op,     \* the last call: <<name, key code or 0>>
    last_key,    \* its key argument: <<"name", string, 0>>, <<"code", "", int>>, or NoKey
    raised       \* TRUE when the last call raised ValueError

timer_vars == <<t_pc, now, end, remaining, read_at, sleep_len, t_ret, polls, sleeps, spun, t_dur,
               t_called, active>>

move_vars == <<m_pc, relative, x, y, duration, start_x, start_y, target_x, target_y,
              mid_bx, mid_by, steps, i, prev_bx, prev_by, acc_x, acc_y, roundings,
              sum_dx, sum_dy, n_events, last_ev, flushed>>

input_vars == <<held_keys, left_click_held, right_click_held, key_down, left_down,
               right_down, emitted, last_op, last_key, raised>>

vars == <<timer_vars, move_vars, input_vars>>

----------------------------------------------------------------------------
\* Bounds of the model
TicksPerMs == 2
MaxDurMs == 53
MaxSleeps == 4
MaxLag == 2
MaxShortMs == 3
MaxOff == 3
MaxCoord == 5
MaxRoundings == 2

Min(a, b) == IF a <= b THEN a ELSE b
Max(a, b) == IF a >= b THEN a ELSE b

----------------------------------------------------------------------------
\* sleep_interruptible

\* check_interval = 0.05 s, in ticks
check_interval == 50 * TicksPerMs
\* the 0.001 s margin of the spin-wait and of the sleep argument, in ticks
margin == 1 * TicksPerMs

\* the durations tried: non-positive ones, short ones, and ones longer than
\* check_interval
Durations ==
    { d \in (-TicksPerMs) .. (MaxDurMs * TicksPerMs) :
        d <= MaxShortMs * TicksPerMs \/ d >= check_interval }

\* `if remaining <= 0: break`
ElapsedWithinMargin(rem) == rem <= margin
ElapsedStrict(rem) == rem < 0
Elapsed(rem) == rem <= 0

\* `if remaining <= 0.001:` (spin-wait for the last millisecond)
InSpinTailNever(rem) == FALSE
InSpinTail(rem) == rem <= margin

\* `min(check_interval, remaining - 0.001)`
SleepArgNoMargin(rem) == Min(check_interval, rem)
SleepArg(rem) == Min(check_interval, rem - margin)

\* `while time.perf_counter() < end: pass`
SpinAgain(clock, deadline) == clock < deadline

\* where control goes after `if not get_active_status(): return False`
AfterPollIgnored(answer) == "remaining"
AfterPoll(answer) == IF answer THEN "remaining" ELSE "ret"

InitTimer ==
    /\ t_pc = "idle"
    /\ now = 0
    /\ end = 0
    /\ remaining = 0
    /\ read_at = 0
    /\ sleep_len = 0
    /\ t_ret = "none"
    /\ polls = 0
    /\ sleeps = 0
    /\ spun = FALSE
    /\ t_dur = 0
    /\ t_called = 0
    /\ active = TRUE

\* end = time.perf_counter() + duration
TCall ==
    /\ t_pc = "idle"
    /\ \E d \in Durations :
        /\ t_dur' = d
        /\ end' = now + d
    /\ t_called' = now
    /\ t_pc' = "poll"
    /\ UNCHANGED <<now, remaining, read_at, sleep_len, t_ret, polls, sleeps, spun, active>>
    /\ UNCHANGED <<move_vars, input_vars>>

\* if not get_active_status(): return False
\* The callback answers either way and takes lag ticks of the clock.
TPoll ==
    /\ t_pc = "poll"
    /\ \E answer \in BOOLEAN, lag \in 0 .. MaxLag :
        /\ active' = answer
        /\ now' = now + lag
        /\ polls' = polls + 1
        /\ t_pc' = AfterPoll(answer)
        /\ t_ret' = IF AfterPoll(answer) = "ret" THEN "False" ELSE t_ret
    /\ UNCHANGED <<end, remaining, read_at, sleep_len, sleeps, spun, t_dur, t_called>>
    /\ UNCHANGED <<move_vars, input_vars>>

\* remaining = end - time.perf_counter(), then the two tests on it
TRemaining ==
    /\ t_pc = "remaining"
    /\ remaining' = end - now
    /\ read_at' = now
    /\ IF Elapsed(remaining')
         THEN /\ t_pc' = "ret"
              /\ t_ret' = "True"
              /\ UNCHANGED <<sleep_len, spun>>
         ELSE IF InSpinTail(remaining')
         THEN /\ t_pc' = "spin"
              /\ spun' = TRUE
              /\ UNCHANGED <<sleep_len, t_ret>>
         ELSE /\ t_pc' = "sleep"
              /\ sleep_len' = SleepArg(remaining')
              /\ UNCHANGED <<t_ret, spun>>
    /\ UNCHANGED <<now, end, polls, sleeps, t_dur, t_called, active>>
    /\ UNCHANGED <<move_vars, input_vars>>

\* one evaluation of `while time.perf_counter() < end`; the clock has moved
\* by adv ticks since it was last read
TSpin ==
    /\ t_pc = "spin"
    /\ \E adv \in 0 .. MaxLag :
        /\ now' = now + adv
        /\ IF SpinAgain(now', end)
             THEN UNCHANGED <<t_pc, t_ret>>
             ELSE /\ t_pc' = "ret"
                  /\ t_ret' = "True"
    /\ UNCHANGED <<end, remaining, read_at, sleep_len, polls, sleeps, spun, t_dur, t_called, active>>
    /\ UNCHANGED <<move_vars, input_vars>>

\* time.sleep(sleep_len): best effort, it may return early or late
TSleep ==
    /\ t_pc = "sleep"
    /\ sleeps < MaxSleeps
    /\ \E actual \in 0 .. (sleep_len + MaxLag) :
        now' = now + actual
    /\ sleeps' = sleeps + 1
    /\ t_pc' = "poll"
    /\ UNCHANGED <<end, remaining, read_at, sleep_len, t_ret, polls, spun, t_dur, t_called, active>>
    /\ UNCHANGED <<move_vars, input_vars>>

\* The same two waits on a clock that makes progress: every time.sleep and
\* every evaluation of the spin-wait condition finds the clock at least one
\* tick further.  The number of sleeps is then bounded by the duration.
\* the durations tried there: the non-positive and short ones, and the longest
DurationsProgress ==
    { d \in Durations : d <= MaxShortMs * TicksPerMs \/ d = MaxDurMs * TicksPerMs }

TCallProgress ==
    /\ t_pc = "idle"
    /\ \E d \in DurationsProgress :
        /\ t_dur' = d
        /\ end' = now + d
    /\ t_called' = now
    /\ t_pc' = "poll"
    /\ UNCHANGED <<now, remaining, read_at, sleep_len, t_ret, polls, sleeps, spun, active>>
    /\ UNCHANGED <<move_vars, input_vars>>

TSpinAdvancing ==
    /\ t_pc = "spin"
    /\ \E adv \in 1 .. MaxLag :
        /\ now' = now + adv
        /\ IF SpinAgain(now', end)
             THEN UNCHANGED <<t_pc, t_ret>>
             ELSE /\ t_pc' = "ret"
                  /\ t_ret' = "True"
    /\ UNCHANGED <<end, remaining, read_at, sleep_len, polls, sleeps, spun, t_dur, t_called, active>>
    /\ UNCHANGED <<move_vars, input_vars>>

\* what a sleep of len ticks takes there: a single tick (the earliest return
\* that is progress), len ticks, or len ticks and the longest lag
SleepOutcomes(len) == {1, Max(1, len), Max(1, len + MaxLag)}

TSleepAdvancing ==
    /\ t_pc = "sleep"
    /\ \E actual \in SleepOutcomes(sleep_len) :
        now' = now + actual
    /\ sleeps' = sleeps + 1
    /\ t_pc' = "poll"
    /\ UNCHANGED <<end, remaining, read_at, sleep_len, t_ret, polls, spun, t_dur, t_called, active>>
    /\ UNCHANGED <<move_vars, input_vars>>

----------------------------------------------------------------------------
\* smooth_move
\*
\* Floats are modelled as exact rationals over a fixed denominator.  The eased
\* parameter (1 - cos(t*pi))/2 is tabulated in thousandths; positions on the
\* curve, prev_bx / prev_by and the accumulators are integers over Den(relative).
\* The float rounding of `acc_x += bx - prev_bx` is an error of at most one
\* unit of 1/Den, in at most MaxRoundings accumulations of a call.

EasedDen == 10 * 10 * 10

\* denominator of mid_bx, mid_by: x / 2 in relative mode; in absolute mode the
\* midpoint plus a deviation drawn in twentieths of dist
MidDen(rel) == IF rel THEN 2 ELSE 2 * 20

\* denominator of the curve positions and of the accumulators
Den(rel) == MidDen(rel) * EasedDen * EasedDen

Abs(n) == IF n >= 0 THEN n ELSE -n

\* Python int() of a float n / d: truncation towards zero
Trunc(n, d) == IF n >= 0 THEN n \div d ELSE -((-n) \div d)

\* Python round() of a float n / d: to the nearest integer, ties to even
Round(n, d) ==
    LET q == n \div d
        r == n % d
    IN  IF 2 * r < d THEN q
        ELSE IF 2 * r > d THEN q + 1
        ELSE IF q % 2 = 0 THEN q ELSE q + 1

\* round(EasedDen * (1 - math.cos(k / n * math.pi)) / 2) for k = 1 .. n
EasedTable(n) ==
    CASE n = 15 -> <<11, 43, 95, 165, 250, 345, 448, 552, 655, 750, 835, 905, 957,
                     989, 1000>>
      [] n = 16 -> <<10, 38, 84, 146, 222, 309, 402, 500, 598, 691, 778, 854, 916,
                     962, 990, 1000>>
      [] n = 17 -> <<9, 34, 75, 130, 199, 277, 363, 454, 546, 637, 723, 801, 870,
                     925, 966, 991, 1000>>

\* eased = (1 - math.cos(t * math.pi)) / 2 with t = k / n, times EasedDen
Eased(k, n) == EasedTable(n)[k]

\* steps = max(15, int(duration * 120)), duration in milliseconds
StepsRound(d) == Max(15, Round(d * 120, 1000))
StepsOf(d) == Max(15, Trunc(d * 120, 1000))

\* `if dist < 2:` with dist = math.sqrt(dx * dx + dy * dy)
ShortWithin1(dx, dy) == dx * dx + dy * dy < 2
IsShortPath(dx, dy) == dx * dx + dy * dy < 2 * 2

\* bx = 2 * inv * eased * mid_bx + eased * eased * x, times Den(TRUE)
BezierRelFarControl(e, mid, off) ==
    2 * (EasedDen - e) * e * (4 * mid) + MidDen(TRUE) * e * e * off
BezierRel(e, mid, off) ==
    2 * (EasedDen - e) * e * mid + MidDen(TRUE) * e * e * off

\* bx = inv * inv * start_x + 2 * inv * eased * mid_bx + eased * eased * target_x,
\* times Den(FALSE)
BezierAbs(e, from, mid, to) ==
    MidDen(FALSE) * (EasedDen - e) * (EasedDen - e) * from
      + 2 * (EasedDen - e) * e * mid
      + MidDen(FALSE) * e * e * to

\* send_dx = int(acc_x)
SendPart(acc) == Trunc(acc, Den(TRUE))

\* `if send_dx != 0 or send_dy != 0:` in the loop
ShouldSendXOnly(sdx, sdy) == sdx # 0
ShouldSend(sdx, sdy) == sdx # 0 \/ sdy # 0

\* send_dx = round(acc_x) after the loop
FlushTrunc(acc) == Trunc(acc, Den(TRUE))
FlushPart(acc) == Round(acc, Den(TRUE))

\* random.randint(-1, 1) if i < steps else 0
JitterAlways(k, n) == {-1, 0, 1}
Jitter(k, n) == IF k < n THEN {-1, 0, 1} ELSE {0}

\* the arguments and the cursor positions tried
Offsets == ((-MaxOff) .. MaxOff) \cup {-41, 34, 100}
Targets == (-1) .. MaxCoord
DurationsMs == {10, 140}
Cursors == {<<0, 0>>, <<2, 1>>}
\* random.uniform(-0.15, 0.15), in twentieths
Deviations == {-3, 0, 3}
\* the rounding error of one accumulation, in units of 1 / Den
RoundErr == {-1, 0, 1}

NoEvent == <<"none", 0, 0>>

InitMove ==
    /\ m_pc = "idle"
    /\ relative = FALSE
    /\ x = 0 /\ y = 0 /\ duration = 0
    /\ start_x = 0 /\ start_y = 0
    /\ target_x = 0 /\ target_y = 0
    /\ mid_bx = 0 /\ mid_by = 0
    /\ steps = 0 /\ i = 0
    /\ prev_bx = 0 /\ prev_by = 0
    /\ acc_x = 0 /\ acc_y = 0
    /\ roundings = 0
    /\ sum_dx = 0 /\ sum_dy = 0
    /\ n_events = 0
    /\ last_ev = NoEvent
    /\ flushed = FALSE

\* smooth_move(ax, ay, d, rel) up to the first sample: the cursor is read, the
\* short path sends its single event and returns, the long path sets the curve up
MCall ==
    /\ m_pc = "idle"
    /\ \E rel \in BOOLEAN, d \in DurationsMs, c \in Cursors, dev \in Deviations :
       \E ax \in (IF rel THEN Offsets ELSE Targets),
          ay \in (IF rel THEN Offsets ELSE Targets) :
        LET tx == IF rel THEN c[1] + ax ELSE ax
            ty == IF rel THEN c[2] + ay ELSE ay
            dx == tx - c[1]
            dy == ty - c[2]
        IN  /\ relative' = rel /\ x' = ax /\ y' = ay /\ duration' = d
            /\ start_x' = c[1] /\ start_y' = c[2]
            /\ target_x' = tx /\ target_y' = ty
            /\ i' = 0
            /\ prev_bx' = 0 /\ prev_by' = 0 /\ acc_x' = 0 /\ acc_y' = 0
            /\ roundings' = 0 /\ flushed' = FALSE
            /\ IF IsShortPath(dx, dy)
                 THEN /\ m_pc' = "done"
                      /\ n_events' = 1
                      /\ last_ev' = IF rel THEN <<"delta", dx, dy>>
                                           ELSE <<"move", tx, ty>>
                      /\ sum_dx' = IF rel THEN dx ELSE 0
                      /\ sum_dy' = IF rel THEN dy ELSE 0
                      /\ mid_bx' = 0 /\ mid_by' = 0 /\ steps' = 0
                 ELSE /\ m_pc' = "loop"
                      /\ n_events' = 0
                      /\ last_ev' = NoEvent
                      /\ sum_dx' = 0 /\ sum_dy' = 0
                      /\ mid_bx' = IF rel THEN ax
                                   ELSE 20 * (c[1] + tx) + 2 * (-dy) * (IF rel THEN 0 ELSE dev)
                      /\ mid_by' = IF rel THEN ay
                                   ELSE 20 * (c[2] + ty) + 2 * dx * (IF rel THEN 0 ELSE dev)
                      /\ steps' = StepsOf(d)
    /\ UNCHANGED <<timer_vars, input_vars>>

\* one iteration of the relative loop (lines 260-275)
MStepRel ==
    /\ m_pc = "loop" /\ relative /\ i < steps
    /\ \E ex \in RoundErr, ey \in RoundErr :
        LET e   == Eased(i + 1, steps)
            bx  == BezierRel(e, mid_bx, x)
            by  == BezierRel(e, mid_by, y)
            \* an accumulation of zero onto a sum is exact
            rx  == IF bx = prev_bx THEN 0 ELSE ex
            ry  == IF by = prev_by THEN 0 ELSE ey
            ax  == acc_x + (bx - prev_bx) + rx
            ay  == acc_y + (by - prev_by) + ry
            sdx == SendPart(ax)
            sdy == SendPart(ay)
        IN  /\ (bx = prev_bx => ex = 0) /\ (by = prev_by => ey = 0)
            /\ roundings + Abs(rx) + Abs(ry) <= MaxRoundings
            /\ roundings' = roundings + Abs(rx) + Abs(ry)
            /\ prev_bx' = bx /\ prev_by' = by
            /\ IF ShouldSend(sdx, sdy)
                 THEN /\ last_ev' = <<"delta", sdx, sdy>>
                      /\ n_events' = n_events + 1
                      /\ sum_dx' = sum_dx + sdx /\ sum_dy' = sum_dy + sdy
                      /\ acc_x' = ax - sdx * Den(TRUE)
                      /\ acc_y' = ay - sdy * Den(TRUE)
                 ELSE /\ acc_x' = ax /\ acc_y' = ay
                      /\ UNCHANGED <<last_ev, n_events, sum_dx, sum_dy>>
    /\ i' = i + 1
    /\ m_pc' = IF i + 1 = steps THEN "after_loop" ELSE "loop"
    /\ UNCHANGED <<relative, x, y, duration, start_x, start_y, target_x, target_y,
                   mid_bx, mid_by, steps, flushed>>
    /\ UNCHANGED <<timer_vars, input_vars>>

\* the correction after the relative loop (lines 276-279)
MFlush ==
    /\ m_pc = "after_loop" /\ relative
    /\ LET sdx == FlushPart(acc_x)
           sdy == FlushPart(acc_y)
       IN  IF sdx # 0 \/ sdy # 0
             THEN /\ last_ev' = <<"delta", sdx, sdy>>
                  /\ n_events' = n_events + 1
                  /\ sum_dx' = sum_dx + sdx /\ sum_dy' = sum_dy + sdy
                  /\ flushed' = TRUE
             ELSE UNCHANGED <<last_ev, n_events, sum_dx, sum_dy, flushed>>
    /\ m_pc' = "done"
    /\ UNCHANGED <<relative, x, y, duration, start_x, start_y, target_x, target_y,
                   mid_bx, mid_by, steps, i, prev_bx, prev_by, acc_x, acc_y, roundings>>
    /\ UNCHANGED <<timer_vars, input_vars>>

\* one iteration of the absolute loop (lines 281-290)
MStepAbs ==
    /\ m_pc = "loop" /\ ~relative /\ i < steps
    /\ \E jx \in Jitter(i + 1, steps), jy \in Jitter(i + 1, steps) :
        LET e  == Eased(i + 1, steps)
            bx == BezierAbs(e, start_x, mid_bx, target_x)
            by == BezierAbs(e, start_y, mid_by, target_y)
        IN  last_ev' = <<"move", Trunc(bx, Den(FALSE)) + jx, Trunc(by, Den(FALSE)) + jy>>
    /\ n_events' = n_events + 1
    /\ i' = i + 1
    /\ m_pc' = IF i + 1 = steps THEN "after_loop" ELSE "loop"
    /\ UNCHANGED <<relative, x, y, duration, start_x, start_y, target_x, target_y,
                   mid_bx, mid_by, steps, prev_bx, prev_by, acc_x, acc_y, roundings,
                   sum_dx, sum_dy, flushed>>
    /\ UNCHANGED <<timer_vars, input_vars>>

\* send_input_move(target_x, target_y) after the absolute loop (line 291)
MFinal ==
    /\ m_pc = "after_loop" /\ ~relative
    /\ last_ev' = <<"move", target_x, target_y>>
    /\ n_events' = n_events + 1
    /\ m_pc' = "done"
    /\ UNCHANGED <<relative, x, y, duration, start_x, start_y, target_x, target_y,
                   mid_bx, mid_by, steps, i, prev_bx, prev_by, acc_x, acc_y,
                   roundings, sum_dx, sum_dy, flushed>>
    /\ UNCHANGED <<timer_vars, input_vars>>

----------------------------------------------------------------------------
\* held keys and buttons: press, release, release_all, left_click, right_click,
\* release_left_click, release_right_click
\*
\* A key argument is <<"name", string>> or <<"code", int>>.  An injected event is
\* <<"key", code, "down" | "up">>, <<"left", 0, ...>> or <<"right", 0, ...>>.

KeyNames == {"a", "A", "esc", "escape", " ", "zz"}
Codes == {27, 32, 65}
KeyArgs == {<<"name", n>> : n \in KeyNames} \cup {<<"code", c>> : c \in Codes}

\* key.lower()
Lower(n) == IF n = "A" THEN "a" ELSE n

\* the entries of KEY_MAP the names above reach: ord('A'), VK_ESCAPE
KEY_MAP == [n \in {"a", "esc", "escape"} |-> IF n = "a" THEN 65 ELSE 27]

\* len(key) == 1, and ord(key.upper()) for such a key
IsOneChar(n) == n \in {"a", "A", " "}
OrdUpper(n) == IF n = " " THEN 32 ELSE 65

\* the key argument as recorded in last_key
NoKey == <<"none", "", 0>>
KeyTag(key) == IF key[1] = "code" THEN <<"code", "", key[2]>> ELSE <<"name", key[2], 0>>

\* _get_key_code: the key code, or -1 for `raise ValueError`
get_key_code(key) ==
    IF key[1] = "code" THEN key[2]
    ELSE IF Lower(key[2]) \in DOMAIN KEY_MAP THEN KEY_MAP[Lower(key[2])]
    ELSE IF IsOneChar(key[2]) THEN OrdUpper(key[2])
    ELSE -1

\* The functions below take and return the module state with the events
\* injected so far: [held, left, right, out].

\* press(key, hold) once the key code is known (lines 424-431)
press_code_unguarded(st, code, hold) ==
    IF hold
      THEN [st EXCEPT !.out = Append(@, <<"key", code, "down">>),
                      !.held = @ \cup {code}]
      ELSE [st EXCEPT !.out = @ \o << <<"key", code, "down">>, <<"key", code, "up">> >>]
press_code(st, code, hold) ==
    IF hold
      THEN IF code \notin st.held
             THEN [st EXCEPT !.out = Append(@, <<"key", code, "down">>),
                             !.held = @ \cup {code}]
             ELSE st
      ELSE [st EXCEPT !.out = @ \o << <<"key", code, "down">>, <<"key", code, "up">> >>]

\* release(key) once the key code is known (lines 441-443)
release_keeps_held(st, code) ==
    IF code \in st.held
      THEN [st EXCEPT !.out = Append(@, <<"key", code, "up">>)]
      ELSE st
release_code(st, code) ==
    IF code \in st.held
      THEN [st EXCEPT !.out = Append(@, <<"key", code, "up">>),
                      !.held = @ \ {code}]
      ELSE st

left_click_st(st, hold) ==
    IF hold
      THEN IF ~st.left
             THEN [st EXCEPT !.out = Append(@, <<"left", 0, "down">>), !.left = TRUE]
             ELSE st
      ELSE [st EXCEPT !.out = @ \o << <<"left", 0, "down">>, <<"left", 0, "up">> >>]

release_left_click_st(st) ==
    IF st.left
      THEN [st EXCEPT !.out = Append(@, <<"left", 0, "up">>), !.left = FALSE]
      ELSE st

right_click_st(st, hold) ==
    IF hold
      THEN IF ~st.right
             THEN [st EXCEPT !.out = Append(@, <<"right", 0, "down">>), !.right = TRUE]
             ELSE st
      ELSE [st EXCEPT !.out = @ \o << <<"right", 0, "down">>, <<"right", 0, "up">> >>]

release_right_click_st(st) ==
    IF st.right
      THEN [st EXCEPT !.out = Append(@, <<"right", 0, "up">>), !.right = FALSE]
      ELSE st

\* for key_code in list(_held_keys): release(key_code)
RECURSIVE release_each(_, _)
release_each(st, order) ==
    IF order = <<>> THEN st
    ELSE release_each(release_code(st, get_key_code(<<"code", Head(order)>>)), Tail(order))

\* release_all, the held keys listed in the given order
release_all_no_right(st, order) ==
    release_left_click_st(release_each(st, order))
release_all_st(st, order) ==
    release_right_click_st(release_left_click_st(release_each(st, order)))

\* the orders list(_held_keys) may come in
Orders(S) ==
    { o \in [1 .. Cardinality(S) -> S] : \A a, b \in DOMAIN o : o[a] = o[b] => a = b }

\* the module state at the start of a call
Cur == [held |-> held_keys, left |-> left_click_held, right |-> right_click_held,
        out |-> <<>>]

\* whether the last event of the given kind and code in out, or else old, is a down
LastDown(out, kind, code, old) ==
    LET at == { k \in 1 .. Len(out) : out[k][1] = kind /\ out[k][2] = code }
    IN  IF at = {} THEN old
        ELSE out[CHOOSE k \in at : \A m \in at : m <= k][3] = "down"

\* the call returned with module state st
Returned(st, op) ==
    /\ held_keys' = st.held
    /\ left_click_held' = st.left
    /\ right_click_held' = st.right
    /\ emitted' = st.out
    /\ key_down' = [c \in Codes |-> LastDown(st.out, "key", c, key_down[c])]
    /\ left_down' = LastDown(st.out, "left", 0, left_down)
    /\ right_down' = LastDown(st.out, "right", 0, right_down)
    /\ last_op' = op
    /\ raised' = FALSE

\* _get_key_code raised ValueError: nothing was injected or recorded
Raised(op) ==
    /\ emitted' = <<>>
    /\ last_op' = op
    /\ raised' = TRUE
    /\ UNCHANGED <<held_keys, left_click_held, right_click_held, key_down, left_down,
                   right_down>>

InitInput ==
    /\ held_keys = {}
    /\ left_click_held = FALSE
    /\ right_click_held = FALSE
    /\ key_down = [c \in Codes |-> FALSE]
    /\ left_down = FALSE
    /\ right_down = FALSE
    /\ emitted = <<>>
    /\ last_op = <<"none", 0>>
    /\ last_key = NoKey
    /\ raised = FALSE

press ==
    /\ \E key \in KeyArgs, hold \in BOOLEAN :
        LET code == get_key_code(key)
            op == <<IF hold THEN "press_hold" ELSE "press", code>>
        IN  /\ IF code = -1 THEN Raised(op) ELSE Returned(press_code(Cur, code, hold), op)
            /\ last_key' = KeyTag(key)
    /\ UNCHANGED <<timer_vars, move_vars>>

release ==
    /\ \E key \in KeyArgs :
        LET code == get_key_code(key)
        IN  /\ IF code = -1 THEN Raised(<<"release", code>>)
               ELSE Returned(release_code(Cur, code), <<"release", code>>)
            /\ last_key' = KeyTag(key)
    /\ UNCHANGED <<timer_vars, move_vars>>

release_all ==
    /\ \E order \in Orders(held_keys) :
        Returned(release_all_st(Cur, order), <<"release_all", 0>>)
    /\ last_key' = NoKey
    /\ UNCHANGED <<timer_vars, move_vars>>

left_click ==
    /\ \E hold \in BOOLEAN :
        Returned(left_click_st(Cur, hold), <<IF hold THEN "left_click_hold" ELSE "left_click", 0>>)
    /\ last_key' = NoKey
    /\ UNCHANGED <<timer_vars, move_vars>>

release_left_click ==
    /\ Returned(release_left_click_st(Cur), <<"release_left_click", 0>>)
    /\ last_key' = NoKey
    /\ UNCHANGED <<timer_vars, move_vars>>

right_click ==
    /\ \E hold \in BOOLEAN :
        Returned(right_click_st(Cur, hold), <<IF hold THEN "right_click_hold" ELSE "right_click", 0>>)
    /\ last_key' = NoKey
    /\ UNCHANGED <<timer_vars, move_vars>>

release_right_click ==
    /\ Returned(release_right_click_st(Cur), <<"release_right_click", 0>>)
    /\ last_key' = NoKey
    /\ UNCHANGED <<timer_vars, move_vars>>

----------------------------------------------------------------------------
\* The three components share no state; each is checked on its own.

Init == InitTimer /\ InitMove /\ InitInput

NextTimer == TCall \/ TPoll \/ TRemaining \/ TSpin \/ TSleep
SpecTimer == Init /\ [][NextTimer]_vars

\* sleep_interruptible on a clock that makes progress; the calling thread
\* keeps running, so a step that can be taken is taken
NextTimerProgress == TCallProgress \/ TPoll \/ TRemaining \/ TSpinAdvancing \/ TSleepAdvancing
SpecTimerProgress == Init /\ [][NextTimerProgress]_vars /\ WF_vars(NextTimerProgress)

NextMove == MCall \/ MStepRel \/ MFlush \/ MStepAbs \/ MFinal
SpecMove == Init /\ [][NextMove]_vars

NextInput ==
    \/ press \/ release \/ release_all
    \/ left_click \/ release_left_click \/ right_click \/ release_right_click
SpecInput == Init /\ [][NextInput]_vars

----------------------------------------------------------------------------
\* Properties of sleep_interruptible (under SpecTimer)

\* C2: whenever the call has returned True, the monotonic clock is at or past
\* the deadline, the clock value at the call plus duration.
C2_NeverTrueEarly == t_ret = "True" => now >= t_called + t_dur

\* a call longer than the poll interval returned True after sleeping twice and
\* busy-waiting
C2_Witness == t_ret = "True" /\ t_dur > 50 * TicksPerMs /\ sleeps >= 2 /\ spun

\* C3: the predicate is polled at the top of every iteration, the first
\* included, before remaining is computed and before any sleep or busy-wait, and
\* a poll answering False returns False at once.
C3_PollFirst ==
    [][ \* the call starts by polling
        /\ (t_pc = "idle" /\ t_pc' # "idle") => (t_pc' = "poll" /\ polls' = 0)
        \* a poll happens at the top of an iteration only, one per iteration
        /\ (polls' # polls) => (t_pc = "poll" /\ polls' = polls + 1 /\ polls = sleeps)
        \* remaining is computed right after a poll that answered True
        /\ (t_pc' = "remaining") => (t_pc = "poll" /\ polls' = polls + 1 /\ active')
        \* a sleep or the busy-wait comes after this iteration's poll
        /\ (t_pc' \in {"sleep", "spin"}) => (polls' = sleeps' + 1 /\ active')
        /\ (sleeps' # sleeps) => (polls = sleeps + 1 /\ polls' = polls)
        \* a poll answering False returns False with nothing in between
        /\ (polls' # polls /\ ~active') =>
              (t_pc' = "ret" /\ t_ret' = "False" /\ sleeps' = sleeps /\ spun' = spun)
        \* and nothing happens after the return
        /\ (t_pc = "ret") => UNCHANGED <<polls, sleeps, spun, t_ret>>
      ]_vars

\* the third poll of a call answered False, after two sleeps
C3_Witness == t_ret = "False" /\ polls = 3 /\ sleeps = 2 /\ ~active

\* C4 as stated: with duration <= 0 the call returns True without sleeping or
\* busy-waiting, whatever the predicate answers.
C4_AlwaysTrue ==
    (t_dur <= 0 /\ t_pc = "ret") => (t_ret = "True" /\ sleeps = 0 /\ ~spun)

\* C4 amended: with duration <= 0 the call polls the predicate once and never
\* sleeps or busy-waits; it returns True when that poll answers True and False
\* when it answers False.
C4_NonPositiveDuration ==
    (t_dur <= 0 /\ t_pc # "idle") =>
        /\ sleeps = 0 /\ ~spun /\ t_pc \notin {"sleep", "spin"}
        /\ t_pc = "ret" => (polls = 1 /\ (t_ret = "True") = active
                                      /\ (t_ret = "False") = ~active)

\* a call with duration 0 returned True
C4_Witness == t_dur = 0 /\ t_pc = "ret" /\ t_ret = "True" /\ polls = 1

\* C8: every sleep requested between two polls is min(50 ms, remaining - 1 ms)
\* long: positive, at most 50 ms, ending at deadline - 1 ms at the latest by the
\* clock value remaining was computed from; there is one sleep per poll, and the
\* predicate is not polled in the busy-wait tail (0 < remaining <= 1 ms).
C8_SleepLength ==
    [][ /\ (t_pc' = "sleep") =>
              /\ sleep_len' = Min(50 * TicksPerMs, remaining' - TicksPerMs)
              /\ sleep_len' > 0
              /\ sleep_len' <= 50 * TicksPerMs
              /\ read_at' + sleep_len' <= end' - TicksPerMs
        /\ (sleeps' # sleeps) => (sleeps' = sleeps + 1 /\ polls = sleeps + 1 /\ t_pc' = "poll")
        /\ (t_pc' = "spin") => (remaining' > 0 /\ remaining' <= TicksPerMs)
        /\ (t_pc = "spin") => (polls' = polls /\ sleeps' = sleeps /\ t_pc' \in {"spin", "ret"})
      ]_vars

\* after a first sleep, a second one shorter than the poll interval is pending
C8_Witness ==
    /\ t_pc = "sleep" /\ sleeps = 1
    /\ sleep_len < 50 * TicksPerMs /\ sleep_len = remaining - TicksPerMs

----------------------------------------------------------------------------
\* Properties of smooth_move (under SpecMove)

\* C1: in relative mode the deltas sent over the whole call sum to (x, y).
C1_ExactDisplacement ==
    (m_pc = "done" /\ relative) => (sum_dx = x /\ sum_dy = y)

\* a long relative move ended with a correction event after the loop
C1_Witness == m_pc = "done" /\ relative /\ flushed /\ i = steps /\ n_events > 3

\* the squared distance from the start to the target of the call
Dist2 ==
    IF relative THEN x * x + y * y
    ELSE (x - start_x) * (x - start_x) + (y - start_y) * (y - start_y)

\* C5: with dist < 2 the call sends exactly one event, the requested offset as
\* a relative delta or the requested target as an absolute move, and returns
\* without iterating a sample.
C5_ShortPath ==
    (m_pc # "idle" /\ Dist2 < 4) =>
        /\ m_pc = "done" /\ i = 0 /\ n_events = 1
        /\ last_ev = IF relative THEN <<"delta", x, y>> ELSE <<"move", x, y>>

\* an absolute move to a point next to the cursor returned after one event
C5_Witness ==
    /\ m_pc = "done" /\ ~relative /\ Dist2 \in {1, 2, 3}
    /\ n_events = 1 /\ last_ev = <<"move", x, y>>

\* C6 as stated: the samples iterated number max(15, round(duration * 120)).
C6_StepsRounded ==
    (m_pc = "done" /\ Dist2 >= 4) =>
        i = Max(15, Round(duration * 120, 1000))

\* C6 amended: the samples iterated number max(15, int(duration * 120)), that
\* is duration * 120 truncated to an integer, with a floor of 15.
C6_StepsTruncated ==
    (m_pc = "done" /\ Dist2 >= 4) =>
        i = (IF duration * 120 < 15 * 1000 THEN 15 ELSE (duration * 120) \div 1000)

\* a move of 0.14 s (duration * 120 = 16.8) iterated 16 samples
C6_Witness == m_pc = "done" /\ Dist2 >= 4 /\ duration = 140 /\ i = 16

\* C7 as stated: after every sample of a relative move the accumulators are
\* below 1 in absolute value and the deltas sent so far differ from the curve
\* position by less than one unit, per axis.
C7_WithinOneUnit ==
    (relative /\ m_pc \in {"loop", "after_loop"} /\ i >= 1) =>
        /\ Abs(acc_x) < Den(TRUE) /\ Abs(acc_y) < Den(TRUE)
        /\ Abs(prev_bx - sum_dx * Den(TRUE)) < Den(TRUE)
        /\ Abs(prev_by - sum_dy * Den(TRUE)) < Den(TRUE)

\* C7 amended: after every sample of a relative move the accumulators are
\* below 1 in absolute value; the deltas sent so far differ from the curve
\* position by the accumulator up to its float rounding error, which is less
\* than one unit plus that error (and can be a whole unit).
C7_AccumulatorBelowOne ==
    (relative /\ m_pc \in {"loop", "after_loop"} /\ i >= 1) =>
        /\ Abs(acc_x) < Den(TRUE) /\ Abs(acc_y) < Den(TRUE)
        /\ Abs(prev_bx - sum_dx * Den(TRUE)) < Den(TRUE) + roundings
        /\ Abs(prev_by - sum_dy * Den(TRUE)) < Den(TRUE) + roundings

\* a sample of a relative move sent nothing and left a non-zero accumulator
\* behind deltas already sent
C7_Witness ==
    /\ relative /\ m_pc = "loop" /\ i >= 2 /\ n_events >= 1
    /\ acc_x # 0 /\ acc_y # 0 /\ roundings > 0

\* the position on the absolute curve at sample k, truncated as the code does
SampleX(k) == Trunc(BezierAbs(Eased(k, steps), start_x, mid_bx, target_x), Den(FALSE))
SampleY(k) == Trunc(BezierAbs(Eased(k, steps), start_y, mid_by, target_y), Den(FALSE))

\* C11: in an absolute move with dist >= 2 every sample but the last is sent
\* within one pixel of the curve, the last sample is sent without jitter and is
\* the target, and the last event of the call is the move to the target (x, y).
C11_LastMoveIsTarget ==
    (~relative /\ Dist2 >= 4) =>
        /\ (m_pc = "loop" /\ i >= 1) =>
              /\ last_ev[1] = "move"
              /\ Abs(last_ev[2] - SampleX(i)) <= 1
              /\ Abs(last_ev[3] - SampleY(i)) <= 1
        /\ (m_pc = "after_loop") => (i = steps /\ last_ev = <<"move", x, y>>)
        /\ (m_pc = "done") => (last_ev = <<"move", x, y>> /\ n_events = steps + 1)

\* an absolute move along a curve bent away from the straight line has ended
C11_Witness ==
    /\ m_pc = "done" /\ ~relative /\ Dist2 >= 4 /\ i = steps
    /\ mid_bx # 20 * (start_x + target_x)
    /\ <<start_x, start_y>> # <<0, 0>>

\* d is zero or has the sign of off
SameSign(d, off) == (off = 0 => d = 0) /\ d * off >= 0

\* C13: in a relative move every delta sent is, per axis, zero or of the sign
\* of the requested offset, and after every event the sum of the deltas sent is
\* at most the requested offset in absolute value, per axis.
C13_NoBacktrackNoOvershoot ==
    (relative /\ last_ev[1] = "delta") =>
        /\ SameSign(last_ev[2], x) /\ SameSign(last_ev[3], y)
        /\ SameSign(sum_dx, x) /\ SameSign(sum_dy, y)
        /\ Abs(sum_dx) <= Abs(x) /\ Abs(sum_dy) <= Abs(y)

\* a relative move towards the upper left is under way: several deltas sent,
\* the last one non-zero on both axes, and the offset not reached yet
C13_Witness ==
    /\ relative /\ m_pc = "loop" /\ n_events >= 3
    /\ x < 0 /\ y > 0 /\ last_ev[2] < 0 /\ last_ev[3] > 0
    /\ sum_dx > x /\ sum_dy < y

----------------------------------------------------------------------------
\* Properties of the held keys and buttons (under SpecInput)

Count(out, ev) == Cardinality({ k \in 1 .. Len(out) : out[k] = ev })

\* C9: release_all leaves no key and no button recorded as held, and injects
\* exactly one key-up / button-up for each key code and button that was
\* recorded as held when it was called (and nothing else).
C9_ReleaseAllClean ==
    [][ (last_op' = <<"release_all", 0>>) =>
          /\ held_keys' = {} /\ ~left_click_held' /\ ~right_click_held'
          /\ \A c \in Codes :
                /\ Count(emitted', <<"key", c, "up">>) = (IF c \in held_keys THEN 1 ELSE 0)
                /\ Count(emitted', <<"key", c, "down">>) = 0
          /\ Count(emitted', <<"left", 0, "up">>) = (IF left_click_held THEN 1 ELSE 0)
          /\ Count(emitted', <<"right", 0, "up">>) = (IF right_click_held THEN 1 ELSE 0)
          /\ Count(emitted', <<"left", 0, "down">>) = 0
          /\ Count(emitted', <<"right", 0, "down">>) = 0
      ]_vars

\* release_all released two keys and both buttons
C9_Witness ==
    /\ last_op = <<"release_all", 0>> /\ Len(emitted) = 4
    /\ held_keys = {} /\ ~left_click_held /\ ~right_click_held

\* C10: a key code is in _held_keys exactly when the last key event injected
\* for it was a key-down, and each button flag is True exactly when the last
\* event injected for that button was a button-down.
C10_HeldIsDown ==
    /\ \A c \in Codes : (c \in held_keys) = key_down[c]
    /\ left_click_held = left_down
    /\ right_click_held = right_down

\* the key code a key argument stands for: 'a' and 'A' and 65 are one key,
\* 'esc' and 'escape' and 27 are one key, ' ' and 32 are one key
AliasCode(k) ==
    IF k[1] = "code" THEN k[3]
    ELSE IF k[2] \in {"a", "A"} THEN 65
    ELSE IF k[2] \in {"esc", "escape"} THEN 27
    ELSE IF k[2] = " " THEN 32
    ELSE -1

\* the call injected nothing and left the held state as it was
NothingDone ==
    /\ emitted' = <<>>
    /\ UNCHANGED <<held_keys, left_click_held, right_click_held, key_down, left_down,
                   right_down>>

\* C12: a hold of a key or button already recorded as held, and a release of
\* one not recorded as held, inject nothing and leave the held state unchanged;
\* a key is recorded under its key code, whatever alias names it.
C12_HoldReleaseIdempotent ==
    [][ /\ (last_op'[1] = "press_hold" /\ AliasCode(last_key') \in held_keys) => NothingDone
        /\ (last_op'[1] = "release" /\ AliasCode(last_key') \notin held_keys) => NothingDone
        /\ (last_op'[1] = "left_click_hold" /\ left_click_held) => NothingDone
        /\ (last_op'[1] = "right_click_hold" /\ right_click_held) => NothingDone
        /\ (last_op'[1] = "release_left_click" /\ ~left_click_held) => NothingDone
        /\ (last_op'[1] = "release_right_click" /\ ~right_click_held) => NothingDone
        /\ (last_op'[1] = "press_hold" /\ AliasCode(last_key') # -1) =>
              held_keys' = held_keys \cup {AliasCode(last_key')}
        /\ (last_op'[1] = "release" /\ AliasCode(last_key') # -1) =>
              held_keys' = held_keys \ {AliasCode(last_key')}
      ]_vars

\* press('escape', hold=True) found the key held and injected nothing
C12_Witness ==
    /\ last_op = <<"press_hold", 27>> /\ last_key = <<"name", "escape", 0>>
    /\ emitted = <<>> /\ ~raised /\ held_keys = {27, 65} /\ left_click_held

----------------------------------------------------------------------------
\* Termination of sleep_interruptible (under SpecTimerProgress)

\* C14: when every sleep and every busy-wait read finds the clock advanced,
\* the call returns; it returns True when every poll answered True; and the
\* polls number at most one more than the sleeps, which number at most the
\* ticks from the call to deadline - 1 ms.
C14_Terminates ==
    /\ [](/\ polls <= sleeps + 1
          /\ sleeps <= Max(0, t_dur - TicksPerMs)
          /\ (t_pc = "ret") => (polls = sleeps + 1 /\ (active => t_ret = "True")))
    /\ <>(t_pc = "ret")

\* a call longer than the poll interval returned True after more sleeps than
\* full-length sleeps would have taken
C14_Witness ==
    /\ t_pc = "ret" /\ t_ret = "True" /\ t_dur > 50 * TicksPerMs
    /\ sleeps > MaxSleeps /\ polls = sleeps + 1

====
